---- MODULE Spec2Model ----
(***************************************************************************)
(* Model of the connection cache (lib/mongodb: connectDB, two variants)    *)
(* and of the events route (app/api/events/route.ts: POST and GET).        *)
(*                                                                         *)
(* One process, single-threaded event loop.  Every request is a coroutine  *)
(* that runs synchronously from one await to the next.  Continuations of   *)
(* awaits on the cached connection promise are promise reactions: when the *)
(* promise settles they are queued as microtasks in registration order and *)
(* run before any macrotask (a new request, an I/O completion, a reload).  *)
(***************************************************************************)
EXTENDS Integers, Sequences, FiniteSets, TLC

\* Number of requests the process receives (each request slot runs once).
NumReqs == 2

Reqs == 1..NumReqs
\* A connect attempt is started by some request: at most one per request.
Attempts == 1..NumReqs
\* Cache objects that can ever be allocated ({ conn: null, promise: null }).
Objs == 1..2

\* null for handles, promises and object references
NULL == 0

VARIABLES
    variant,      \* which connectDB source is deployed: "eager" (URI checked at module load) or "lazy"
    uriPresent,   \* process.env.MONGODB_URI is defined
    loaded,       \* the module evaluated without throwing (connectDB is exported)
    globalMongoose, \* global.mongoose: NULL or a cache object
    cached,       \* the module-level binding `cached`: NULL or a cache object
    heap,         \* cache objects: [conn, promise]
    attempt,      \* per attempt: [state, waiters]; the promise returned by mongoose.connect(...).then(...)
    jobs,         \* microtask queue: requests whose await on a settled promise resumes next
    db,           \* the events collection, in insertion order
    media,        \* the media service: the assets uploaded, [by, url]
    req,          \* the requests
    reloadedSinceConnect  \* history: the module was evaluated again while a handle was cached

vars == <<variant, uriPresent, loaded, globalMongoose, cached, heap, attempt, jobs, db, media, req,
          reloadedSinceConnect>>

-----------------------------------------------------------------------------
(* Values.  Every runtime value is [t, v] with v a sequence of strings, so   *)
(* that values of different JavaScript types can be compared.                *)

\* formData.get(name) of a field the form does not have: null
Absent == [t |-> "absent", v |-> <<>>]
\* a File entry
FileEntry == [t |-> "file", v |-> <<"bytes">>]
\* a string entry; its text is a sequence of JSON tokens ("s:a" is the string literal "a")
Text(toks) == [t |-> "text", v |-> toks]

TagsAB == <<"[", "s:a", ",", "s:b", "]">>
AgendaX == <<"[", "s:x", "]">>
NotJson == <<"not", "json">>
Truncated == <<"[", "s:x">>

\* The forms a client may submit: the well-formed one, and the ones that
\* differ from it in one field (plus one with no image and malformed tags).
ImageEntries == {Absent, Text(<<>>), Text(<<"pic">>), FileEntry}
TagsEntries == {Absent, Text(TagsAB), Text(NotJson)}
AgendaEntries == {Text(AgendaX), Text(Truncated)}
GoodForm == [image |-> FileEntry, tags |-> Text(TagsAB), agenda |-> Text(AgendaX)]
Forms ==
    {[GoodForm EXCEPT !.image = i] : i \in ImageEntries}
    \cup {[GoodForm EXCEPT !.tags = t] : t \in TagsEntries}
    \cup {[GoodForm EXCEPT !.agenda = a] : a \in AgendaEntries}
    \cup {[GoodForm EXCEPT !.image = Absent, !.tags = Text(NotJson)]}
NoForm == [image |-> Absent, tags |-> Absent, agenda |-> Absent]

\* The secure_url values the media service may answer with.
Urls == {"u1", "u2"}
Url(u) == [t |-> "url", v |-> <<u>>]

\* JavaScript truthiness of a form entry: null and "" are falsy, a File and a
\* non-empty string are truthy.
Truthy(e) == e.t = "file" \/ (e.t = "text" /\ e.v # <<>>)

\* The `as string` argument of JSON.parse is coerced with ToString: null reads "null".
ToStringArg(e) == IF e.t = "absent" THEN <<"null">> ELSE e.v

IsStrTok(tok) == tok \in {"s:a", "s:b", "s:x"}
StrOf(tok) == CASE tok = "s:a" -> "a" [] tok = "s:b" -> "b" [] tok = "s:x" -> "x" [] OTHER -> ""

JNull == [t |-> "null", v |-> <<>>]
\* JSON.parse on a token sequence: null, a string literal, or a flat array of
\* string literals; anything else is a SyntaxError (ok = FALSE).
JSONParse(toks) ==
    LET n == Len(toks)
        inner == SubSeq(toks, 2, n - 1)
        m == Len(inner)
    IN  IF toks = <<"null">> THEN [ok |-> TRUE, val |-> JNull]
        ELSE IF n = 1 /\ IsStrTok(toks[1])
            THEN [ok |-> TRUE, val |-> [t |-> "str", v |-> <<StrOf(toks[1])>>]]
        ELSE IF n >= 2 /\ toks[1] = "[" /\ toks[n] = "]"
                /\ (m = 0 \/ (m % 2 = 1
                              /\ \A i \in 1..m : IF i % 2 = 1 THEN IsStrTok(inner[i])
                                                            ELSE inner[i] = ","))
            THEN [ok |-> TRUE,
                  val |-> [t |-> "arr", v |-> [i \in 1..((m + 1) \div 2) |-> StrOf(inner[2 * i - 1])]]]
        ELSE [ok |-> FALSE, val |-> JNull]

\* Object.fromEntries(formData.entries())
FromEntries(form) == [image |-> form.image, tags |-> form.tags, agenda |-> form.agenda]
NoEvent == [image |-> Absent, tags |-> Absent, agenda |-> Absent]

-----------------------------------------------------------------------------
(* The events collection.                                                    *)

\* Event.create(doc): the stored document carries its creation time; times
\* are distinct and increase with insertion.
EventCreate(coll, doc) ==
    Append(coll, [image |-> doc.image, tags |-> doc.tags, agenda |-> doc.agenda,
                  createdAt |-> Len(coll) + 1])

\* insert d into a sequence already sorted by createdAt descending
RECURSIVE InsertDesc(_, _)
InsertDesc(d, s) ==
    IF s = <<>> THEN <<d>>
    ELSE IF d.createdAt >= Head(s).createdAt THEN <<d>> \o s
    ELSE <<Head(s)>> \o InsertDesc(d, Tail(s))

\* .sort({ createdAt: -1 })
RECURSIVE SortCreatedAtDesc(_)
SortCreatedAtDesc(s) ==
    IF s = <<>> THEN <<>> ELSE InsertDesc(Head(s), SortCreatedAtDesc(Tail(s)))

\* Event.find(): every document, in natural (insertion) order
EventFind(coll) == coll

\* The collection outlives the process: two events stored before it started.
StoredBefore ==
    EventCreate(EventCreate(<<>>, [image |-> Url("u1"), tags |-> JNull, agenda |-> JNull]),
                [image |-> Url("u2"), tags |-> JNull, agenda |-> JNull])

-----------------------------------------------------------------------------
(* Module evaluation and the initial state.                                  *)

EmptyCache == [conn |-> NULL, promise |-> NULL]

\* `if (!MONGODB_URI) throw` at module level: only the eager variant has it.
ModuleThrows(v, uri) == v = "eager" /\ ~uri

\* (variant for C13 and C16: every evaluation makes its own cache object)
CachedBindingFresh(g, fresh) == fresh

\* let cached = global.mongoose || { conn: null, promise: null }
CachedBinding(g, fresh) == IF g # NULL THEN g ELSE fresh

\* if (!global.mongoose) global.mongoose = cached
GlobalAfterEval(g, c) == IF g = NULL THEN c ELSE g

IdleReq ==
    [kind |-> "none", pc |-> "idle", cache |-> NULL, awaiting |-> NULL,
     connRet |-> NULL, conn |-> "none",
     form |-> NoForm, tags |-> JNull, agenda |-> JNull, event |-> NoEvent,
     uploadResult |-> Absent, uploads |-> 0, inserts |-> 0, reads |-> 0, stored |-> 0, failedAt |-> "none",
     status |-> 0, message |-> "", body |-> <<>>]

Init ==
    /\ variant \in {"eager", "lazy"}
    /\ uriPresent \in BOOLEAN
    /\ loaded = ~ModuleThrows(variant, uriPresent)
    /\ cached = IF loaded THEN CachedBinding(NULL, 1) ELSE NULL
    /\ globalMongoose = IF loaded THEN GlobalAfterEval(NULL, cached) ELSE NULL
    /\ heap = [o \in Objs |-> EmptyCache]
    /\ attempt = [a \in Attempts |-> [state |-> "unused", waiters |-> <<>>]]
    /\ jobs = <<>>
    /\ db = StoredBefore
    /\ media = {}
    /\ req = [r \in Reqs |-> IdleReq]
    /\ reloadedSinceConnect = FALSE

-----------------------------------------------------------------------------
(* Responses of the route handlers.                                          *)

\* the outer catch of POST, and the catch of GET
ErrorMessage(kind) == IF kind = "POST" THEN "Event Creation Failed" ELSE "Event fetching failed"

\* (variant for C11: the catch block throws the error again)
CatchAllRethrows(rec, step) == [rec EXCEPT !.pc = "escaped", !.failedAt = step]

CatchAll(rec, step) ==
    [rec EXCEPT !.pc = "done", !.failedAt = step, !.status = 500,
                !.message = ErrorMessage(rec.kind)]

BadRequest(rec, step, msg) ==
    [rec EXCEPT !.pc = "done", !.failedAt = step, !.status = 400, !.message = msg]

-----------------------------------------------------------------------------
(* connectDB                                                                 *)

\* (variant for C1: the cached handle is never looked at)
HasConnNever(o) == FALSE

\* if (cached.conn) return cached.conn
HasConn(o) == o.conn # NULL

\* (variant for C3: the pending promise is never looked at)
NoPromiseAlways(o) == TRUE

\* if (!cached.promise) { ... start an attempt ... }
NoPromise(o) == o.promise = NULL

\* (variant for C2: the URI is never validated)
MissingURINever(v, uri) == FALSE

\* if (!MONGODB_URI) throw, inside connectDB: only the lazy variant has it.
\* (The eager variant exports connectDB only when the URI is defined.)
MissingURI(v, uri) == v = "lazy" /\ ~uri

\* (variant for C12: the awaited handle is not written to the cache)
StoreConnNot(o, h) == o

\* cached.conn = await cached.promise, when the promise is fulfilled with h
StoreConn(o, h) == [o EXCEPT !.conn = h]

\* (variant for C4: the catch rethrows without resetting the promise)
ClearPromiseNot(o) == o

\* catch (error) { cached.promise = null; throw error }
ClearPromise(o) == [o EXCEPT !.promise = NULL]

\* the attempt a new mongoose.connect call creates
FreshAttempt == CHOOSE a \in Attempts : attempt[a].state = "unused" /\
                    \A b \in Attempts : attempt[b].state = "unused" => a <= b

\* The handler's continuation once `await connectDB()` has returned:
\* POST goes on to `await req.formData()`, GET issues Event.find().sort(...).
AfterConnect(rec) ==
    IF rec.kind = "POST"
    THEN [rec EXCEPT !.pc = "formData"]
    ELSE [rec EXCEPT !.pc = "find", !.reads = rec.reads + 1]

\* (variant for C10: the rejection of connectDB is swallowed and the handler goes on)
OnConnectErrorIgnored(rec) == AfterConnect(rec)

\* The handler's continuation once `await connectDB()` has thrown: the catch.
OnConnectError(rec) == CatchAll(rec, "connect")

\* A request arrives: the handler runs `await connectDB()`, that is connectDB
\* up to its first await, return or throw.  A return or a throw settles the
\* promise of the async call, which queues the handler's continuation.
Start(r, kind, form) ==
    /\ loaded
    /\ jobs = <<>>
    /\ req[r].pc = "idle"
    /\ LET o == heap[cached]
           rec == [req[r] EXCEPT !.kind = kind, !.cache = cached, !.form = form]
       IN  IF HasConn(o)
           THEN /\ req' = [req EXCEPT ![r] = [rec EXCEPT !.pc = "returnCached", !.conn = "ok",
                                                         !.connRet = o.conn]]
                /\ jobs' = Append(jobs, r)
                /\ UNCHANGED <<heap, attempt>>
           ELSE IF NoPromise(o)
           THEN IF MissingURI(variant, uriPresent)
                THEN /\ req' = [req EXCEPT ![r] = [rec EXCEPT !.pc = "throwConfig", !.conn = "config"]]
                     /\ jobs' = Append(jobs, r)
                     /\ UNCHANGED <<heap, attempt>>
                ELSE /\ \E a \in Attempts : attempt[a].state = "unused"
                     /\ LET a == FreshAttempt
                        IN  /\ heap' = [heap EXCEPT ![cached].promise = a]
                            /\ attempt' = [attempt EXCEPT ![a] = [state |-> "pending", waiters |-> <<r>>]]
                            /\ req' = [req EXCEPT ![r] = [rec EXCEPT !.pc = "awaitConn", !.awaiting = a]]
                     /\ UNCHANGED jobs
           ELSE LET p == o.promise
                IN  /\ req' = [req EXCEPT ![r] = [rec EXCEPT !.pc = "awaitConn", !.awaiting = p]]
                    /\ IF attempt[p].state = "pending"
                       THEN /\ attempt' = [attempt EXCEPT ![p].waiters = Append(@, r)]
                            /\ UNCHANGED jobs
                       ELSE /\ jobs' = Append(jobs, r)
                            /\ UNCHANGED attempt
                    /\ UNCHANGED heap
    /\ UNCHANGED <<media, reloadedSinceConnect, variant, uriPresent, loaded, globalMongoose, cached, db>>

StartPOST(r) == \E form \in Forms : Start(r, "POST", form)
StartGET(r) == Start(r, "GET", NoForm)

\* mongoose.connect succeeds: the promise is fulfilled with a handle (named
\* after the attempt) and its reactions are queued in registration order.
ConnectFulfilled(a) ==
    /\ jobs = <<>>
    /\ attempt[a].state = "pending"
    /\ attempt' = [attempt EXCEPT ![a] = [state |-> "fulfilled", waiters |-> <<>>]]
    /\ jobs' = attempt[a].waiters
    /\ UNCHANGED <<media, reloadedSinceConnect, variant, uriPresent, loaded, globalMongoose, cached, heap, db, req>>

\* mongoose.connect fails: the promise is rejected.
ConnectRejected(a) ==
    /\ jobs = <<>>
    /\ attempt[a].state = "pending"
    /\ attempt' = [attempt EXCEPT ![a] = [state |-> "rejected", waiters |-> <<>>]]
    /\ jobs' = attempt[a].waiters
    /\ UNCHANGED <<media, reloadedSinceConnect, variant, uriPresent, loaded, globalMongoose, cached, heap, db, req>>

\* The next microtask: r resumes after `await cached.promise` with the handle,
\* stores it and returns cached.conn.
ResumeFulfilled(r) ==
    /\ jobs # <<>> /\ Head(jobs) = r
    /\ req[r].pc = "awaitConn"
    /\ attempt[req[r].awaiting].state = "fulfilled"
    /\ LET c == req[r].cache
           h == req[r].awaiting
       IN  /\ heap' = [heap EXCEPT ![c] = StoreConn(@, h)]
           /\ req' = [req EXCEPT ![r] = [@ EXCEPT !.pc = "returnStored", !.conn = "ok",
                                                  !.connRet = heap'[c].conn, !.awaiting = NULL]]
    /\ jobs' = Append(Tail(jobs), r)
    /\ UNCHANGED <<media, reloadedSinceConnect, variant, uriPresent, loaded, globalMongoose, cached, attempt, db>>

\* The next microtask: r resumes after `await cached.promise` with the
\* rejection, clears the promise and rethrows.
ResumeRejected(r) ==
    /\ jobs # <<>> /\ Head(jobs) = r
    /\ req[r].pc = "awaitConn"
    /\ attempt[req[r].awaiting].state = "rejected"
    /\ heap' = [heap EXCEPT ![req[r].cache] = ClearPromise(@)]
    /\ req' = [req EXCEPT ![r] = [@ EXCEPT !.pc = "rethrow", !.conn = "connection", !.awaiting = NULL]]
    /\ jobs' = Append(Tail(jobs), r)
    /\ UNCHANGED <<media, reloadedSinceConnect, variant, uriPresent, loaded, globalMongoose, cached, attempt, db>>

\* The next microtask: the handler resumes after `await connectDB()` returned.
HandlerResume(r) ==
    /\ jobs # <<>> /\ Head(jobs) = r
    /\ req[r].pc \in {"returnCached", "returnStored"}
    /\ req' = [req EXCEPT ![r] = AfterConnect(@)]
    /\ jobs' = Tail(jobs)
    /\ UNCHANGED <<media, reloadedSinceConnect, variant, uriPresent, loaded, globalMongoose, cached, heap, attempt, db>>

\* The next microtask: the handler resumes after `await connectDB()` threw.
HandlerCatch(r) ==
    /\ jobs # <<>> /\ Head(jobs) = r
    /\ req[r].pc \in {"throwConfig", "rethrow"}
    /\ req' = [req EXCEPT ![r] = OnConnectError(@)]
    /\ jobs' = Tail(jobs)
    /\ UNCHANGED <<media, reloadedSinceConnect, variant, uriPresent, loaded, globalMongoose, cached, heap, attempt, db>>

\* Development hot reload: the module is evaluated again.
Reload ==
    /\ jobs = <<>>
    /\ IF ModuleThrows(variant, uriPresent)
       THEN UNCHANGED <<loaded, cached, globalMongoose, heap>>
       ELSE LET fresh == CHOOSE o \in Objs : o # cached
                c == CachedBinding(globalMongoose, fresh)
            IN  /\ cached' = c
                /\ globalMongoose' = GlobalAfterEval(globalMongoose, c)
                /\ heap' = IF c = globalMongoose THEN heap ELSE [heap EXCEPT ![c] = EmptyCache]
                /\ loaded' = TRUE
    /\ reloadedSinceConnect' = (reloadedSinceConnect \/ (loaded /\ heap[cached].conn # NULL))
    /\ UNCHANGED <<media, variant, uriPresent, attempt, jobs, db, req>>

-----------------------------------------------------------------------------
(* POST                                                                      *)

\* (variant for C14: the SyntaxError is swallowed and POST goes on to read the file)
JsonSyntaxErrorIgnored(rec) == [rec EXCEPT !.pc = "arrayBuffer"]

\* JSON.parse throws inside the outer try: the outer catch answers.
JsonSyntaxError(rec) == CatchAll(rec, "json")

\* (variant for C5: the image check is left out)
MissingImageNever(file) == FALSE

\* if (!file) return 400
MissingImage(file) == ~Truthy(file)

\* POST from the resolution of req.formData() to `await file.arrayBuffer()`:
\* fromEntries, the image check, the two JSON.parse calls, the arrayBuffer call.
ParseForm(rec) ==
    LET form == rec.form
        event == FromEntries(form)
        file == form.image
        tags == JSONParse(ToStringArg(form.tags))
        agenda == JSONParse(ToStringArg(form.agenda))
        got == [rec EXCEPT !.event = event]
    IN  IF MissingImage(file) THEN BadRequest(got, "image", "Image file is required")
        ELSE IF ~tags.ok THEN JsonSyntaxError(got)
        ELSE IF ~agenda.ok THEN JsonSyntaxError([got EXCEPT !.tags = tags.val])
        ELSE LET parsed == [got EXCEPT !.tags = tags.val, !.agenda = agenda.val]
             IN  IF file.t # "file"
                 THEN CatchAll(parsed, "arrayBuffer")   \* a string has no arrayBuffer method
                 ELSE [parsed EXCEPT !.pc = "arrayBuffer"]

\* req.formData() resolves with the submitted form; POST runs on to
\* `await file.arrayBuffer()`, a return or a throw.
FormDataOk(r) ==
    /\ jobs = <<>>
    /\ req[r].pc = "formData"
    /\ req' = [req EXCEPT ![r] = ParseForm(@)]
    /\ UNCHANGED <<media, reloadedSinceConnect, variant, uriPresent, loaded, globalMongoose, cached, heap, attempt, jobs, db>>

\* req.formData() rejects (the body is not a form).
FormDataFail(r) ==
    /\ jobs = <<>>
    /\ req[r].pc = "formData"
    /\ req' = [req EXCEPT ![r] = CatchAll(@, "formData")]
    /\ UNCHANGED <<media, reloadedSinceConnect, variant, uriPresent, loaded, globalMongoose, cached, heap, attempt, jobs, db>>

\* file.arrayBuffer() resolves: the upload stream is opened and fed the buffer.
ArrayBufferOk(r) ==
    /\ jobs = <<>>
    /\ req[r].pc = "arrayBuffer"
    /\ req' = [req EXCEPT ![r] = [@ EXCEPT !.pc = "upload", !.uploads = @ + 1]]
    /\ UNCHANGED <<media, reloadedSinceConnect, variant, uriPresent, loaded, globalMongoose, cached, heap, attempt, jobs, db>>

ArrayBufferFail(r) ==
    /\ jobs = <<>>
    /\ req[r].pc = "arrayBuffer"
    /\ req' = [req EXCEPT ![r] = CatchAll(@, "arrayBuffer")]
    /\ UNCHANGED <<media, reloadedSinceConnect, variant, uriPresent, loaded, globalMongoose, cached, heap, attempt, jobs, db>>

\* (variant for C8: the uploaded URL is not written to the event)
SetImageNot(event, uploadResult) == event

\* event.image = uploadResult.secure_url
SetImage(event, uploadResult) == [event EXCEPT !.image = uploadResult]

\* { ...event, tags: tags, agenda: agenda }
NewDoc(event, tags, agenda) == [event EXCEPT !.tags = tags, !.agenda = agenda]

\* The upload callback reports a result (the asset is on the media service):
\* the image is set and Event.create is issued.
UploadOk(r) ==
    /\ jobs = <<>>
    /\ req[r].pc = "upload"
    /\ \E u \in Urls :
          /\ req' = [req EXCEPT ![r] =
                       [@ EXCEPT !.pc = "create", !.inserts = @ + 1, !.uploadResult = Url(u),
                                 !.event = NewDoc(SetImage(req[r].event, Url(u)), req[r].tags, req[r].agenda)]]
          /\ media' = media \cup {[by |-> r, url |-> Url(u)]}
    /\ UNCHANGED <<reloadedSinceConnect, variant, uriPresent, loaded, globalMongoose, cached, heap, attempt, jobs, db>>

\* (variant for C7: the upload error is swallowed and the event is created anyway)
UploadFailSwallowed(r) ==
    /\ jobs = <<>>
    /\ req[r].pc = "upload"
    /\ req' = [req EXCEPT ![r] =
                 [@ EXCEPT !.pc = "create", !.inserts = @ + 1, !.failedAt = "upload",
                           !.event = NewDoc(req[r].event, req[r].tags, req[r].agenda)]]
    /\ UNCHANGED <<media, reloadedSinceConnect, variant, uriPresent, loaded, globalMongoose, cached, heap, attempt, jobs, db>>

\* The upload callback reports an error: reject(error).
UploadFail(r) ==
    /\ jobs = <<>>
    /\ req[r].pc = "upload"
    /\ req' = [req EXCEPT ![r] = CatchAll(@, "upload")]
    /\ UNCHANGED <<media, reloadedSinceConnect, variant, uriPresent, loaded, globalMongoose, cached, heap, attempt, jobs, db>>

\* Event.create resolves with the stored document: 201.
CreateOk(r) ==
    /\ jobs = <<>>
    /\ req[r].pc = "create"
    /\ db' = EventCreate(db, req[r].event)
    /\ req' = [req EXCEPT ![r] =
                 [@ EXCEPT !.pc = "done", !.status = 201, !.message = "Event created successfully",
                           !.stored = Len(db'), !.body = <<db'[Len(db')]>>]]
    /\ UNCHANGED <<media, reloadedSinceConnect, variant, uriPresent, loaded, globalMongoose, cached, heap, attempt, jobs>>

\* (variant for C15: the catch removes the uploaded asset before answering)
CreateFailCleanup(r) ==
    /\ jobs = <<>>
    /\ req[r].pc = "create"
    /\ req' = [req EXCEPT ![r] = CatchAll(@, "create")]
    /\ media' = {m \in media : m.by # r}
    /\ UNCHANGED <<reloadedSinceConnect, variant, uriPresent, loaded, globalMongoose, cached, heap, attempt, jobs, db>>

\* Event.create rejects (validation, lost connection): nothing is stored.
CreateFail(r) ==
    /\ jobs = <<>>
    /\ req[r].pc = "create"
    /\ req' = [req EXCEPT ![r] = CatchAll(@, "create")]
    /\ UNCHANGED <<media, reloadedSinceConnect, variant, uriPresent, loaded, globalMongoose, cached, heap, attempt, jobs, db>>

-----------------------------------------------------------------------------
(* GET                                                                       *)

\* (variant for C9: the sort is left out)
FindUnsorted(coll) == EventFind(coll)

\* Event.find().sort({ createdAt: -1 })
FindSorted(coll) == SortCreatedAtDesc(EventFind(coll))

FindOk(r) ==
    /\ jobs = <<>>
    /\ req[r].pc = "find"
    /\ req' = [req EXCEPT ![r] =
                 [@ EXCEPT !.pc = "done", !.status = 200, !.message = "Events fetched successfully",
                           !.body = FindSorted(db)]]
    /\ UNCHANGED <<media, reloadedSinceConnect, variant, uriPresent, loaded, globalMongoose, cached, heap, attempt, jobs, db>>

FindFail(r) ==
    /\ jobs = <<>>
    /\ req[r].pc = "find"
    /\ req' = [req EXCEPT ![r] = CatchAll(@, "find")]
    /\ UNCHANGED <<media, reloadedSinceConnect, variant, uriPresent, loaded, globalMongoose, cached, heap, attempt, jobs, db>>

-----------------------------------------------------------------------------
Next ==
    \/ \E r \in Reqs : StartPOST(r)
    \/ \E r \in Reqs : StartGET(r)
    \/ \E a \in Attempts : ConnectFulfilled(a)
    \/ \E a \in Attempts : ConnectRejected(a)
    \/ \E r \in Reqs : ResumeFulfilled(r)
    \/ \E r \in Reqs : ResumeRejected(r)
    \/ \E r \in Reqs : HandlerResume(r)
    \/ \E r \in Reqs : HandlerCatch(r)
    \/ \E r \in Reqs : FormDataOk(r)
    \/ \E r \in Reqs : FormDataFail(r)
    \/ \E r \in Reqs : ArrayBufferOk(r)
    \/ \E r \in Reqs : ArrayBufferFail(r)
    \/ \E r \in Reqs : UploadOk(r)
    \/ \E r \in Reqs : UploadFail(r)
    \/ \E r \in Reqs : CreateOk(r)
    \/ \E r \in Reqs : CreateFail(r)
    \/ \E r \in Reqs : FindOk(r)
    \/ \E r \in Reqs : FindFail(r)
    \/ Reload

Spec == Init /\ [][Next]_vars

-----------------------------------------------------------------------------
(* Properties of connectDB.                                                  *)

\* r's handler is invoked in this step (connectDB is called)
Called(r) == req[r].pc = "idle" /\ req'[r].pc # "idle"

\* a mongoose.connect call is made in this step
ConnectStarted == \E a \in Attempts : attempt[a].state = "unused" /\ attempt'[a].state # "unused"

PendingAttempts == {a \in Attempts : attempt[a].state = "pending"}

\* C1: once some call to connectDB has succeeded (returned a handle), every
\* later call returns that same handle, at once, and starts no connect attempt.
C1_CachedHandleReturned ==
    [][\A r, q \in Reqs :
         (Called(r) /\ req[q].conn = "ok")
            => /\ req'[r].conn = "ok"
               /\ req'[r].connRet = req[q].connRet
               /\ ~ConnectStarted]_vars

\* a call returned the cached handle of an earlier, finished call; one attempt was ever made
C1_Witness ==
    \E r, q \in Reqs :
        /\ r # q
        /\ req[q].pc = "done" /\ req[q].conn = "ok"
        /\ req[r].pc = "returnCached" /\ req[r].connRet = req[q].connRet
        /\ Cardinality({a \in Attempts : attempt[a].state # "unused"}) = 1

\* C2: with no database URI configured, no connect attempt is ever started,
\* no pending attempt is ever stored in the cache, and every call to connectDB
\* fails with the configuration error.
C2_NoURINoAttempt ==
    ~uriPresent =>
        /\ \A a \in Attempts : attempt[a].state = "unused"
        /\ \A o \in Objs : heap[o].promise = NULL /\ heap[o].conn = NULL
        /\ \A r \in Reqs : req[r].pc # "idle" => req[r].conn = "config"

\* a call has failed with the configuration error and its handler has answered
C2_Witness ==
    /\ ~uriPresent
    /\ \E r \in Reqs : req[r].conn = "config" /\ req[r].pc = "done" /\ req[r].status = 500

\* C3: at most one connect attempt is in progress at any time.
C3_OneAttemptInProgress == Cardinality(PendingAttempts) <= 1

\* two callers await the one attempt in progress, after an earlier attempt failed or not
C3_Witness ==
    \E a \in Attempts : attempt[a].state = "pending" /\ Len(attempt[a].waiters) >= 2

\* C4: a call resumed by a failed attempt clears the pending attempt, leaves
\* the handle absent and throws the failure to its handler (which answers
\* 500); a call made after a failure, with no handle cached and no attempt
\* in progress, starts a fresh attempt and awaits that one.
C4_FailureClearsAndRetries ==
    [][/\ \A r \in Reqs :
            (req[r].pc = "awaitConn" /\ attempt[req[r].awaiting].state = "rejected"
                 /\ req'[r].pc # "awaitConn")
               => /\ heap'[req[r].cache].promise = NULL
                  /\ heap'[req[r].cache].conn = NULL
                  /\ req'[r].pc = "rethrow" /\ req'[r].conn = "connection"
       /\ \A r \in Reqs :
            (req[r].pc = "rethrow" /\ req'[r].pc # "rethrow")
               => req'[r].pc = "done" /\ req'[r].status = 500
       /\ \A r \in Reqs :
            (Called(r) /\ (\E a \in Attempts : attempt[a].state = "rejected")
                 /\ heap[cached].conn = NULL /\ PendingAttempts = {})
               => /\ req'[r].pc = "awaitConn"
                  /\ attempt[req'[r].awaiting].state = "unused"
                  /\ attempt'[req'[r].awaiting].state = "pending"]_vars

\* after a failed attempt was answered with 500, a later call awaits a fresh attempt
C4_Witness ==
    \E r, q \in Reqs :
        /\ req[q].conn = "connection" /\ req[q].pc = "done" /\ req[q].status = 500
        /\ req[r].pc = "awaitConn" /\ attempt[req[r].awaiting].state = "pending"
        /\ \E a \in Attempts : attempt[a].state = "rejected"

-----------------------------------------------------------------------------
(* Properties of POST and GET.                                               *)

Posts == {r \in Reqs : req[r].kind = "POST"}
Gets == {r \in Reqs : req[r].kind = "GET"}

\* r has answered, after connectDB returned and req.formData() resolved
FormRead(r) == req[r].pc = "done" /\ req[r].conn = "ok" /\ req[r].failedAt # "formData"

MalformedJson(e) == ~JSONParse(ToStringArg(e)).ok

\* C5 as stated: every POST whose form has no `image` field answers 400
\* "Image file is required".
C5_NoImageAlways400 ==
    \A r \in Posts :
        (req[r].pc = "done" /\ req[r].form.image = Absent)
           => req[r].status = 400 /\ req[r].message = "Image file is required"

\* C5 (amended): every POST whose connection was acquired, whose form was read
\* and whose form has no `image` entry, or an empty one, answers 400 "Image
\* file is required", whatever its other fields hold.
C5_NoImage400AfterFormRead ==
    \A r \in Posts :
        (FormRead(r) /\ ~Truthy(req[r].form.image))
           => /\ req[r].status = 400 /\ req[r].message = "Image file is required"
              /\ req[r].uploads = 0 /\ req[r].inserts = 0

\* a POST with no image and malformed tags answered 400 for the image
C5_Witness ==
    \E r \in Posts :
        /\ req[r].status = 400 /\ req[r].form.image = Absent
        /\ MalformedJson(req[r].form.tags)

\* C6 as stated: every POST that got as far as the JSON fields (connection
\* acquired, form read, image present) and whose `tags` or `agenda` is not
\* well-formed JSON answers 400 "Invalid JSON data format".
C6_MalformedJson400 ==
    \A r \in Posts :
        (FormRead(r) /\ Truthy(req[r].form.image)
             /\ (MalformedJson(req[r].form.tags) \/ MalformedJson(req[r].form.agenda)))
           => req[r].status = 400 /\ req[r].message = "Invalid JSON data format"

\* C7: a POST whose media upload failed answers 500 "Event Creation Failed"
\* and has issued no insert and stored no event.
C7_UploadFailureNoInsert ==
    \A r \in Posts :
        req[r].failedAt = "upload"
           => /\ req[r].inserts = 0 /\ req[r].stored = 0
              /\ req[r].pc = "done" /\ req[r].status = 500
              /\ req[r].message = "Event Creation Failed"

\* a POST's upload was issued and failed
C7_Witness ==
    \E r \in Posts : req[r].failedAt = "upload" /\ req[r].uploads = 1 /\ req[r].status = 500

\* C8: a POST of the well-formed form in which no step failed answers 201;
\* and the event of every 201 is the stored one, its image is the upload's
\* secure_url (not the submitted `image` value), its tags and agenda are the
\* parsed `tags` and `agenda` fields.
C8_Created201 ==
    \A r \in Posts :
        /\ (req[r].pc = "done" /\ req[r].form = GoodForm /\ req[r].failedAt = "none")
              => req[r].status = 201
        /\ req[r].status = 201
              => /\ Len(req[r].body) = 1
                 /\ req[r].stored \in 1..Len(db)
                 /\ req[r].body[1] = db[req[r].stored]
                 /\ req[r].uploadResult.t = "url"
                 /\ req[r].body[1].image = req[r].uploadResult
                 /\ req[r].body[1].image # req[r].form.image
                 /\ req[r].body[1].tags = JSONParse(ToStringArg(req[r].form.tags)).val
                 /\ req[r].body[1].agenda = JSONParse(ToStringArg(req[r].form.agenda)).val

\* the well-formed form was stored: tags ["a","b"], agenda ["x"]
C8_Witness ==
    \E r \in Posts :
        /\ req[r].status = 201 /\ req[r].form = GoodForm
        /\ req[r].body[1].tags = [t |-> "arr", v |-> <<"a", "b">>]
        /\ req[r].body[1].agenda = [t |-> "arr", v |-> <<"x">>]

\* C9: a GET in which no step failed answers 200; the events of every 200
\* are the events stored when the query ran, each once, ordered by creation
\* time descending.
C9_NewestFirst ==
    \A r \in Gets :
        /\ (req[r].pc = "done" /\ req[r].failedAt = "none") => req[r].status = 200
        /\ req[r].status = 200
              => LET b == req[r].body
                 IN  /\ Len(b) \in Len(StoredBefore)..Len(db)
                     /\ \A i \in 1..Len(b) : \E j \in 1..Len(b) : b[j] = db[i]
                     /\ \A i \in 1..(Len(b) - 1) : b[i].createdAt >= b[i + 1].createdAt

\* a GET returned the events stored before the process started and one created since
C9_Witness ==
    \E r \in Gets : req[r].status = 200 /\ Len(req[r].body) > Len(StoredBefore)

\* C10: a request whose connectDB call failed issues no upload, no insert
\* and no read, stores nothing, and answers 500.
C10_ConnectFailure500 ==
    \A r \in Reqs :
        req[r].conn \in {"config", "connection"}
           => /\ req[r].uploads = 0 /\ req[r].inserts = 0 /\ req[r].reads = 0
              /\ req[r].stored = 0
              /\ req[r].pc \in {"throwConfig", "rethrow", "done"}
              /\ req[r].pc = "done" => (req[r].status = 500 /\ req[r].failedAt = "connect")

\* a POST and a GET both answered 500 after connectDB failed
C10_Witness ==
    \E r \in Posts, q \in Gets :
        /\ req[r].conn # "ok" /\ req[r].status = 500
        /\ req[q].conn # "ok" /\ req[q].status = 500

\* C11: every invocation that ends, ends with one JSON response: a request
\* has a response exactly when its handler has returned, every failed step
\* (connection, form parsing, JSON parsing, byte read, upload, insert, find)
\* ends in a returned response, POST answers 201, 400 or 500, GET answers 200
\* or 500, and a response once returned is never replaced.
C11_OneResponseNoEscape ==
    [][\A r \in Reqs :
         /\ (req'[r].status # 0) <=> (req'[r].pc = "done")
         /\ req'[r].failedAt # "none"
               => (req'[r].pc = "done" /\ req'[r].status \in {400, 500})
         /\ (req'[r].pc = "done" /\ req'[r].kind = "POST") => req'[r].status \in {201, 400, 500}
         /\ (req'[r].pc = "done" /\ req'[r].kind = "GET") => req'[r].status \in {200, 500}
         /\ req[r].pc = "done" => req'[r] = req[r]]_vars

\* a POST whose insert failed and a GET whose query failed have both answered 500
C11_Witness ==
    \E r \in Posts, q \in Gets :
        /\ req[r].failedAt = "create" /\ req[r].pc = "done" /\ req[r].status = 500
        /\ req[q].failedAt = "find" /\ req[q].pc = "done" /\ req[q].status = 500

\* C12: a call made while a connect attempt is pending awaits that attempt
\* and starts none; a call resumed by a fulfilled attempt returns the handle
\* of that attempt, which is then the handle in the cache; so all the callers
\* that awaited one attempt return the same, cached, handle.
C12_WaitersShareAttempt ==
    [][/\ \A r \in Reqs :
            (Called(r) /\ PendingAttempts # {})
               => /\ req'[r].pc = "awaitConn"
                  /\ req'[r].awaiting \in PendingAttempts
                  /\ attempt'[req'[r].awaiting].state = "pending"
                  /\ ~ConnectStarted
       /\ \A r \in Reqs :
            (req[r].pc = "awaitConn" /\ attempt[req[r].awaiting].state = "fulfilled"
                 /\ req'[r].pc # "awaitConn")
               => /\ req'[r].pc = "returnStored" /\ req'[r].conn = "ok"
                  /\ req'[r].connRet = req[r].awaiting
                  /\ heap'[cached'].conn = req'[r].connRet
       /\ \A r, q \in Reqs :
            (req'[r].pc = "returnStored" /\ req'[q].pc = "returnStored")
               => req'[r].connRet = req'[q].connRet]_vars

\* two callers that awaited the same attempt have both returned its handle, the cached one
C12_Witness ==
    \E r, q \in Reqs :
        /\ r # q
        /\ req[r].pc = "returnStored" /\ req[q].pc = "returnStored"
        /\ req[r].connRet = req[q].connRet /\ req[r].connRet # NULL
        /\ heap[cached].conn = req[r].connRet
        /\ Cardinality({a \in Attempts : attempt[a].state # "unused"}) = 1

\* C13: a hot reload leaves the cache as it was: the module's `cached` and
\* global.mongoose name the same object as before, whose handle and pending
\* attempt are unchanged; and a call made after a reload that found a handle
\* cached returns that handle, the one an earlier call returned, at once and
\* without a connect attempt.
C13_ReloadKeepsCache ==
    [][/\ Reload => /\ cached' = cached
                    /\ globalMongoose' = globalMongoose
                    /\ heap' = heap
       /\ \A r \in Reqs :
            (Called(r) /\ reloadedSinceConnect)
               => /\ req'[r].pc = "returnCached"
                  /\ req'[r].connRet = heap[cached].conn
                  /\ \E q \in Reqs : q # r /\ req[q].conn = "ok" /\ req[q].connRet = req'[r].connRet
                  /\ ~ConnectStarted]_vars

\* a call made after a reload that followed a successful connect returned the cached handle
C13_Witness ==
    /\ reloadedSinceConnect
    /\ \E r, q \in Reqs :
          /\ r # q
          /\ req[r].pc = "returnCached"
          /\ req[q].conn = "ok" /\ req[q].connRet = req[r].connRet
          /\ heap[cached].conn = req[r].connRet
    /\ Cardinality({a \in Attempts : attempt[a].state # "unused"}) = 1

AssetsOf(r) == {m \in media : m.by = r}

\* C14: a request issues at most one upload and at most one insert; an
\* upload is issued only by a POST whose connection was acquired, whose image
\* is present and whose `tags` and `agenda` parsed; an insert is issued only
\* after that request's upload succeeded; a 400 response means the request
\* made neither; a GET makes neither.
C14_UploadThenInsertOnce ==
    \A r \in Reqs :
        /\ req[r].uploads <= 1 /\ req[r].inserts <= 1
        /\ Cardinality(AssetsOf(r)) <= req[r].uploads
        /\ req[r].uploads = 1
              => /\ req[r].kind = "POST" /\ req[r].conn = "ok"
                 /\ Truthy(req[r].form.image)
                 /\ ~MalformedJson(req[r].form.tags) /\ ~MalformedJson(req[r].form.agenda)
        /\ req[r].inserts = 1
              => /\ req[r].uploads = 1
                 /\ req[r].uploadResult.t = "url"
                 /\ AssetsOf(r) = {[by |-> r, url |-> req[r].uploadResult]}
        /\ req[r].stored # 0 => req[r].inserts = 1
        /\ req[r].status = 400
              => (req[r].uploads = 0 /\ req[r].inserts = 0 /\ req[r].stored = 0 /\ AssetsOf(r) = {})
        /\ req[r].kind = "GET" => (req[r].uploads = 0 /\ req[r].inserts = 0)

\* one POST went through upload and insert once each, another answered 400 without either
C14_Witness ==
    \E r, q \in Posts :
        /\ req[r].status = 201 /\ req[r].uploads = 1 /\ req[r].inserts = 1
        /\ req[q].status = 400 /\ req[q].uploads = 0 /\ req[q].inserts = 0

\* C15: a POST whose insert failed after its upload succeeded answers 500
\* "Event Creation Failed"; its asset is still on the media service, and the
\* collection holds no record of that request (it holds the records stored
\* before and one per request that answered 201, nothing else).
C15_OrphanedUploadKept ==
    \A r \in Reqs :
        req[r].failedAt = "create"
           => /\ req[r].pc = "done" /\ req[r].status = 500
              /\ req[r].message = "Event Creation Failed"
              /\ req[r].uploadResult.t = "url"
              /\ [by |-> r, url |-> req[r].uploadResult] \in media
              /\ req[r].stored = 0
              /\ Len(db) = Len(StoredBefore) + Cardinality({q \in Reqs : req[q].status = 201})

\* an insert failed after a successful upload: 500, the asset is on the media service
C15_Witness ==
    \E r \in Posts :
        /\ req[r].failedAt = "create" /\ req[r].status = 500
        /\ req[r].uploads = 1 /\ req[r].inserts = 1
        /\ AssetsOf(r) # {}

\* the handle connectDB would find cached (none before the module has loaded)
CachedHandle == IF cached = NULL THEN NULL ELSE heap[cached].conn

\* C16: the cached handle is absent as long as no attempt has succeeded; it
\* is set only by a call resumed by a fulfilled attempt, to that attempt's
\* handle; once set, no step (call, failure, reload) clears or replaces it.
C16_HandleMonotonic ==
    [][/\ CachedHandle # NULL => CachedHandle' = CachedHandle
       /\ (\A a \in Attempts : attempt'[a].state # "fulfilled") => CachedHandle' = NULL
       /\ (CachedHandle = NULL /\ CachedHandle' # NULL)
             => /\ attempt'[CachedHandle'].state = "fulfilled"
                /\ \E r \in Reqs :
                      /\ req[r].pc = "awaitConn" /\ req[r].awaiting = CachedHandle'
                      /\ req'[r].pc = "returnStored"]_vars

\* after a failed attempt, a later attempt set the handle, and a reload has left it in place
C16_Witness ==
    /\ reloadedSinceConnect
    /\ CachedHandle # NULL
    /\ attempt[CachedHandle].state = "fulfilled"
    /\ \E a \in Attempts : attempt[a].state = "rejected"

====
